---- MODULE Spec2Model ----
(***************************************************************************)
(* ATX disk image handling of sdrive-max (src/atx.c): loadAtxFile builds   *)
(* the per-drive track index, loadAtxSector locates a sector occurrence,   *)
(* reads it, randomizes weak data and emulates the drive timing.           *)
(*                                                                         *)
(* Target is an AVR (src/atx.c:23): int and unsigned int are 16 bits wide, *)
(* u32 is 32 bits wide.  A u32 is written here as the 32-bit two's         *)
(* complement integer with the same bit pattern (a value v >= 2^31 is the  *)
(* integer v - 2^32), so that TLC's integers hold every u32.               *)
(***************************************************************************)
EXTENDS Integers, Sequences, FiniteSets, TLC

VARIABLES
    gBytesPerSector,      \* u16, src/atx.c:49
    gSectorsPerTrack,     \* u08, src/atx.c:50
    gTrackInfo,           \* [0..1 -> [0..39 -> u32 offset]], src/atx.c:51
    outside,              \* memory words past the end of gTrackInfo written through it
    gLastAngle,           \* u16, src/atx.c:53
    gCurrentHeadTrack,    \* u08, src/atx.c:54
    last_angle_returned,  \* u16, src/atx.c:47
    atari_sector_buffer,  \* 256 byte cells kept as runs, src/atx.c:46
    file,                 \* per drive: the image the Byte-Range Reader serves (0: none)
    sectorSize,           \* the caller's *sectorSize
    status,               \* the caller's *status
    pc,                   \* "idle", or "walk" inside the loop of loadAtxFile
    ld,                   \* loadAtxFile's locals while it walks: drive, image, startOffset;
                          \* the offsets it has read headers at, the parity of its turns
    call,                 \* the last call: its inputs, result and what it did
    calls,                \* how many calls of each function the run has made
    scan                  \* input and result of the occurrence scan taken alone

vars == <<gBytesPerSector, gSectorsPerTrack, gTrackInfo, outside, gLastAngle,
          gCurrentHeadTrack, last_angle_returned, atari_sector_buffer, file,
          sectorSize, status, pc, ld, call, calls, scan>>

-----------------------------------------------------------------------------
(* Program constants *)

AU_FULL_ROTATION == 26042
MS_SECTOR_READ_PLUS_CRC == 11
\* MS_ANGULAR_UNIT_VAL = 0.007999897601 ms = (AuHi * 10^6 + AuLo) / 10^12 ms
AuHi == 7999
AuLo == 897601
NumDrives == 2
NumTracks == 40
BufferSize == 256
StatusNotFound == 247      \* 0xF7
ExtendedDataFlag == 64     \* 0x40
WeakDataType == 16         \* 0x10

\* atx.h (not among the sources): the version this code supports and the
\* sizes of the on-disk records
ATX_VERSION == 1
SizeofFileHeader == 48
SizeofTrackHeader == 32
SizeofSectorListHeader == 8
SizeofSectorHeader == 8
SizeofExtendedSectorData == 8

\* the calls one run makes
MaxLoads == 2
MaxRequests == 2
\* the longest sector list the scan is run on when taken alone
MaxOcc == 3

-----------------------------------------------------------------------------
(* Fixed-width arithmetic *)

MaxInt32 == 2147483647
MinInt32 == (-2147483647) - 1

U8(x) == x % 256
U16(x) == x % 65536
\* conversion of an unsigned 16-bit value to the 16-bit int of the target
S16(x) == IF U16(x) >= 32768 THEN U16(x) - 65536 ELSE U16(x)

\* a + b modulo 2^32 on two's complement representatives, never leaving 32 bits
Add32(a, b) ==
    IF a > 0 /\ b > 0 /\ a > MaxInt32 - b
        THEN ((a - MaxInt32) - 1) + ((b - MaxInt32) - 1)
    ELSE IF a < 0 /\ b < 0 /\ a < MinInt32 - b
        THEN ((a + MaxInt32) + 1) + ((b + MaxInt32) + 1)
    ELSE a + b
Neg32(a) == IF a = MinInt32 THEN a ELSE 0 - a
Sub32(a, b) == Add32(a, Neg32(b))
\* unsigned comparison of two u32
Gt32(a, b) ==
    IF (a >= 0) = (b >= 0) THEN a > b ELSE a < 0

Max(a, b) == IF a > b THEN a ELSE b
Abs(a) == IF a < 0 THEN 0 - a ELSE a

-----------------------------------------------------------------------------
(* Disk images.  An image is what the Byte-Range Reader serves: its length *)
(* and, for every offset, the record the code sees when it casts the bytes *)
(* read there to one of the structs of atx.h.  th, sl, sh and ex hold the  *)
(* records the image really stores; at any other offset the cast yields    *)
(* the image's junk record of that type (the bytes there are other data).  *)

Sec(number, st, timev, slot) ==
    [number |-> number, status |-> st, timev |-> timev, slot |-> slot]
Ext(type, sectorIndex, data) ==
    [type |-> type, sectorIndex |-> sectorIndex, data |-> data]
\* a track as stored: its header fields, its sector list, the number of
\* payload slots and its extended-data records; size = -1 stands for "the
\* bytes the track really occupies"
Trk(tn, size, secs, slots, exts) ==
    [tn |-> tn, size |-> size, secs |-> secs, slots |-> slots, exts |-> exts]

BytesOf(density) == IF density = 1 THEN 256 ELSE 128
ListStart == SizeofTrackHeader + SizeofSectorListHeader
TrackLen(t, bps) ==
    ListStart + SizeofSectorHeader * Len(t.secs) + t.slots * bps
        + SizeofExtendedSectorData * Len(t.exts)
\* offset of payload slot k (1-based) from the track header; slot 0: no data
DataOf(t, bps, k) ==
    IF k = 0 THEN 0
    ELSE ListStart + SizeofSectorHeader * Len(t.secs) + (k - 1) * bps

Empty == [x \in {} |-> 0]

TrackMaps(t, base, bps) ==
    [th |-> base :> [size |-> IF t.size = -1 THEN TrackLen(t, bps) ELSE t.size,
                     trackNumber |-> t.tn,
                     sectorCount |-> Len(t.secs),
                     headerSize |-> SizeofTrackHeader],
     sl |-> (base + SizeofTrackHeader) :>
                [next |-> SizeofSectorListHeader + SizeofSectorHeader * Len(t.secs)],
     sh |-> [o \in {base + ListStart + SizeofSectorHeader * (i - 1) : i \in 1..Len(t.secs)} |->
                LET s == t.secs[((o - base - ListStart) \div SizeofSectorHeader) + 1]
                IN  [number |-> s.number, status |-> s.status, timev |-> s.timev,
                     data |-> DataOf(t, bps, s.slot)]],
     ex |-> [o \in {base + DataOf(t, bps, t.slots + 1) + SizeofExtendedSectorData * (j - 1) :
                        j \in 1..Len(t.exts)} |->
                t.exts[((o - base - DataOf(t, bps, t.slots + 1)) \div SizeofExtendedSectorData) + 1]]]

RECURSIVE Lay(_, _, _, _)
Lay(ts, i, base, bps) ==
    IF i > Len(ts)
        THEN [th |-> Empty, sl |-> Empty, sh |-> Empty, ex |-> Empty, size |-> base]
    ELSE LET m == TrackMaps(ts[i], base, bps)
             r == Lay(ts, i + 1, base + TrackLen(ts[i], bps), bps)
         IN  [th |-> m.th @@ r.th, sl |-> m.sl @@ r.sl, sh |-> m.sh @@ r.sh,
              ex |-> m.ex @@ r.ex, size |-> r.size]

Magic == <<65, 84, 56, 88>>    \* 'A' 'T' '8' 'X'

Image(signature, version, minVersion, density, ts, junk) ==
    LET l == Lay(ts, 1, SizeofFileHeader, BytesOf(density))
    IN  [fh |-> [signature |-> signature, version |-> version,
                 minVersion |-> minVersion, density |-> density,
                 startData |-> SizeofFileHeader],
         size |-> l.size, th |-> l.th, sl |-> l.sl, sh |-> l.sh, ex |-> l.ex,
         junk |-> junk]

\* what the bytes of a non-record look like: nothing to read
JunkEmpty ==
    [th |-> [size |-> 0, trackNumber |-> 0, sectorCount |-> 0, headerSize |-> 0],
     sl |-> [next |-> 0],
     sh |-> [number |-> 0, status |-> 0, timev |-> 0, data |-> 0],
     ex |-> [type |-> 0, sectorIndex |-> 0, data |-> 0]]
\* ... or, by accident, like the header of track 2 with one sector
JunkTrack2 ==
    [th |-> [size |-> 0, trackNumber |-> 2, sectorCount |-> 1, headerSize |-> 0],
     sl |-> [next |-> SizeofSectorHeader],
     sh |-> [number |-> 1, status |-> 0, timev |-> 300, data |-> SizeofFileHeader],
     ex |-> [type |-> 0, sectorIndex |-> 0, data |-> 0]]

\* single density, tracks 0, 1 and 39
TrackA0 ==
    Trk(0, -1,
        <<Sec(1, 0, 100, 1), Sec(1, 0, 20000, 2),
          Sec(2, 96, 5000, 3),
          Sec(3, 16, 9000, 0),
          Sec(4, 8, 15000, 4), Sec(4, 0, 12000, 5)>>,
        5, <<Ext(WeakDataType, 2, 120)>>)
TrackA1 == Trk(1, -1, <<Sec(1, 0, 700, 1), Sec(2, 8, 900, 2)>>, 2, <<>>)
TrackA39 == Trk(39, -1, <<Sec(1, 0, 26041, 1)>>, 1, <<>>)
\* enhanced density, a weak sector that is also listed twice
TrackB0 ==
    Trk(0, -1,
        <<Sec(1, 0, 400, 1),
          Sec(2, 72, 14000, 2), Sec(2, 64, 3000, 3),
          Sec(19, 0, 13000, 1)>>,
        3, <<Ext(WeakDataType, 2, 250), Ext(WeakDataType, 1, 0)>>)
TrackB2 == Trk(2, -1, <<Sec(1, 0, 50, 1)>>, 1, <<>>)
\* track numbers the index has no room for
TrackC1 == Trk(1, -1, <<Sec(1, 0, 21500, 1)>>, 1, <<>>)
TrackC40 == Trk(40, -1, <<Sec(1, 0, 10, 1)>>, 1, <<>>)
TrackC200 == Trk(200, -1, <<Sec(1, 0, 10, 1)>>, 1, <<>>)
\* a track header whose size field is 0
TrackD0 == Trk(0, 0, <<Sec(1, 0, 100, 1)>>, 1, <<>>)

\* the files: header fields, tracks and junk of each
File(signature, version, minVersion, density, ts, junk) ==
    [signature |-> signature, version |-> version, minVersion |-> minVersion,
     density |-> density, ts |-> ts, junk |-> junk]
Files ==
    <<File(Magic, ATX_VERSION, ATX_VERSION, 0, <<TrackA0, TrackA1, TrackA39>>, JunkEmpty),
      File(Magic, ATX_VERSION, ATX_VERSION, 1, <<TrackB0, TrackB2>>, JunkEmpty),
      File(Magic, ATX_VERSION, ATX_VERSION, 2, <<TrackC1, TrackC40, TrackC200>>, JunkTrack2),
      File(<<65, 84, 56, 89>>, ATX_VERSION, ATX_VERSION, 1, <<TrackB2>>, JunkEmpty),
      File(Magic, 2, ATX_VERSION, 1, <<TrackB2>>, JunkEmpty),
      File(Magic, ATX_VERSION, 0, 0, <<TrackA1>>, JunkEmpty),
      File(Magic, ATX_VERSION, ATX_VERSION, 0, <<TrackD0, TrackA1>>, JunkEmpty)>>
ImageOf(f) == Image(f.signature, f.version, f.minVersion, f.density, f.ts, f.junk)
Images == [m \in DOMAIN Files |-> ImageOf(Files[m])]
ImageIds == DOMAIN Files

\* the record of kind k the code sees at offset off of image img
StructAt(img, k, off) == IF off \in DOMAIN img[k] THEN img[k][off] ELSE img.junk[k]
TrackHeaderAt(m, off) == StructAt(Images[m], "th", off)
SectorListHeaderAt(m, off) == StructAt(Images[m], "sl", off)
SectorHeaderAt(m, off) == StructAt(Images[m], "sh", off)
ExtendedSectorDataAt(m, off) == StructAt(Images[m], "ex", off)

-----------------------------------------------------------------------------
(* The Byte-Range Reader and the scratch buffer.  A buffer cell names the  *)
(* byte it holds: byte `off` of image `img` ("file"), the n-th value drawn *)
(* by rand() during the current call ("rand", n = off), or a byte no read  *)
(* of the current call has written ("stale": what an earlier call left).   *)
(* The buffer is kept as runs of cells: the run <<upto, k, img, base>>     *)
(* holds the cells from the end of the run before it up to index upto - 1. *)

Cell(k, img, off) == [k |-> k, img |-> img, off |-> off]
Run(upto, k, img, base) == [upto |-> upto, k |-> k, img |-> img, base |-> base]

\* faccess_offset(FILE_ACCESS_READ, off, len) succeeds when the whole range
\* lies inside the file
ReadOk(m, off, len) == off >= 0 /\ off <= Images[m].size - len
\* what faccess_offset returns
Returned(m, off, len) == IF ReadOk(m, off, len) THEN len ELSE 0
\* a call of faccess_offset as an event: "read" fills the buffer, "miss"
\* (the range is not in the file) leaves it alone
Event(e, a, b) == [e |-> e, a |-> a, b |-> b]
faccess_offset(m, off, len) ==
    Event(IF ReadOk(m, off, len) THEN "read" ELSE "miss", off, len)

Stale == <<Run(BufferSize, "stale", 0, 0)>>
\* the reads among ev[1..k] that still show in the buffer, latest first: each
\* is longer than `top`, the longest read after it
RECURSIVE Showing(_, _, _, _)
Showing(m, ev, k, top) ==
    IF k = 0 THEN IF top < BufferSize THEN Stale ELSE <<>>
    ELSE IF ev[k].e = "read" /\ ev[k].b > top
        THEN <<Run(ev[k].b, "file", m, ev[k].a)>> \o Showing(m, ev, k - 1, ev[k].b)
    ELSE Showing(m, ev, k - 1, top)
\* the buffer after the calls of faccess_offset among the events ev, in order
BufferAfter(m, ev) == Showing(m, ev, Len(ev), 0)

\* the cell at index i of buffer buf
CellAt(buf, i) ==
    LET r == buf[CHOOSE k \in 1..Len(buf) :
                    buf[k].upto > i /\ \A j \in 1..(k - 1) : buf[j].upto <= i]
    IN  IF r.k = "file" THEN Cell("file", r.img, Add32(r.base, i))
        ELSE IF r.k = "rand" THEN Cell("rand", 0, i - r.base)
        ELSE Cell("stale", 0, 0)

-----------------------------------------------------------------------------
(* loadAtxFile *)

\* (a variant that forgets the minVersion field)
HeaderValidNoMinVersion(fh) ==
    /\ fh.signature = <<65, 84, 56, 88>>
    /\ fh.version = ATX_VERSION

\* src/atx.c:65-70 negated
HeaderValid(fh) ==
    /\ fh.signature[1] = 65
    /\ fh.signature[2] = 84
    /\ fh.signature[3] = 56
    /\ fh.signature[4] = 88
    /\ fh.version = ATX_VERSION
    /\ fh.minVersion = ATX_VERSION

SectorsPerTrackOf(density) == IF density = 1 THEN 26 ELSE 18
\* (a variant that follows the comment at src/atx.c:76 for density 1)
BytesPerSectorOfEnhanced128(density) == IF density = 1 THEN 128 ELSE 256
BytesPerSectorOf(density) == IF density = 1 THEN 256 ELSE 128

\* the word gTrackInfo[drive][track].offset designates: the arrays of the two
\* drives lie one after the other, so the word is number 40 * drive + track
\* counted from the start of the table
\* (a variant that takes trackNumber as 1-based)
WordIndexOneBased(drive, track) == NumTracks * drive + track - 1
WordIndex(drive, track) == NumTracks * drive + track
InTable(w) == w >= 0 /\ w < NumDrives * NumTracks

NoTrace ==
    [tgtTrackNumber |-> 0, tgtSectorNumber |-> 0, trackOffset |-> 0, listed |-> <<>>,
     won |-> -1, hasError |-> FALSE, extendedDataRecords |-> 0, maxSectorOffset |-> 0,
     tgtSectorOffset |-> 0, weakOffset |-> -1, payload |-> 0, exit |-> "none",
     ev |-> <<>>]

Call(op, drive, img, num, h1, h2, ret, done, t) ==
    [op |-> op, drive |-> drive, img |-> img, num |-> num, h1 |-> h1, h2 |-> h2,
     ret |-> ret, done |-> done, t |-> t]

\* turn: the parity of the number of turns the loop has made
NoLoad == [drive |-> 0, img |-> 0, startOffset |-> 0, visited |-> {}, turn |-> 0]

\* the globals as the program starts (src/atx.c:49-54), nothing called yet
Start ==
    /\ gBytesPerSector = 0
    /\ gSectorsPerTrack = 0
    /\ gTrackInfo = [d \in 0..(NumDrives - 1) |-> [n \in 0..(NumTracks - 1) |-> 0]]
    /\ outside = {}
    /\ gLastAngle = 0
    /\ gCurrentHeadTrack = 0
    /\ last_angle_returned = 0
    /\ atari_sector_buffer = Stale
    /\ file = [d \in 0..(NumDrives - 1) |-> 0]
    /\ sectorSize = 0
    /\ status = 0
    /\ pc = "idle"
    /\ ld = NoLoad
    /\ call = Call("none", 0, 0, 0, 0, 0, 0, TRUE, NoTrace)
    /\ calls = [loadAtxFile |-> 0, loadAtxSector |-> 0]

Init ==
    /\ Start
    /\ scan = [list |-> <<>>, head |-> 0, target |-> 0, done |-> FALSE, won |-> -1]

\* src/atx.c:60-80: read and validate the file header, set the geometry
loadAtxFile(drive, m) ==
    /\ pc = "idle"
    /\ calls.loadAtxFile < MaxLoads
    /\ calls' = [calls EXCEPT !.loadAtxFile = @ + 1]
    /\ atari_sector_buffer' = BufferAfter(m, <<faccess_offset(m, 0, SizeofFileHeader)>>)
    /\ IF ~HeaderValid(Images[m].fh)
          THEN /\ call' = Call("loadAtxFile", drive, m, 0, 0, 0, 0, TRUE, NoTrace)
               /\ file' = [file EXCEPT ![drive] = 0]
               /\ UNCHANGED <<gBytesPerSector, gSectorsPerTrack, pc, ld>>
          ELSE /\ gSectorsPerTrack' = SectorsPerTrackOf(Images[m].fh.density)
               /\ gBytesPerSector' = BytesPerSectorOf(Images[m].fh.density)
               /\ ld' = [drive |-> drive, img |-> m,
                         startOffset |-> Images[m].fh.startData,
                         visited |-> {}, turn |-> 0]
               /\ pc' = "walk"
               /\ file' = [file EXCEPT ![drive] = m]
               /\ call' = Call("loadAtxFile", drive, m, 0, 0, 0, 0, FALSE, NoTrace)
    /\ UNCHANGED <<gTrackInfo, outside, gLastAngle, gCurrentHeadTrack,
                   last_angle_returned, sectorSize, status, scan>>

\* src/atx.c:81-90: one turn of the loop over the track headers, or the return
loadAtxFileWalk ==
    /\ pc = "walk"
    /\ atari_sector_buffer' =
           BufferAfter(ld.img, <<faccess_offset(ld.img, ld.startOffset, SizeofTrackHeader)>>)
    /\ IF ~ReadOk(ld.img, ld.startOffset, SizeofTrackHeader)
          THEN /\ pc' = "idle"
               /\ call' = [call EXCEPT !.ret = gBytesPerSector, !.done = TRUE]
               /\ UNCHANGED <<gTrackInfo, outside, ld>>
          ELSE LET trackHeader == TrackHeaderAt(ld.img, ld.startOffset)
                   w == WordIndex(ld.drive, trackHeader.trackNumber)
               IN  /\ IF InTable(w)
                         THEN /\ gTrackInfo' = [gTrackInfo EXCEPT
                                     ![w \div NumTracks][w % NumTracks] = ld.startOffset]
                              /\ UNCHANGED outside
                         ELSE /\ outside' = {p \in outside : p[1] # w} \cup {<<w, ld.startOffset>>}
                              /\ UNCHANGED gTrackInfo
                   /\ ld' = [ld EXCEPT
                                !.startOffset = Add32(ld.startOffset, trackHeader.size),
                                !.visited = @ \cup {ld.startOffset},
                                !.turn = 1 - @]
                   /\ UNCHANGED <<pc, call>>
    /\ UNCHANGED <<gBytesPerSector, gSectorsPerTrack, gLastAngle, gCurrentHeadTrack,
                   last_angle_returned, file, sectorSize, status, calls, scan>>

-----------------------------------------------------------------------------
(* loadAtxSector *)

\* (a variant without the last case: behind the head, the first one stays)
BetterFirstBehind(tt, pTT) ==
    \/ pTT = 0
    \/ (tt > 0 /\ pTT < 0)
    \/ (tt > 0 /\ pTT > 0 /\ tt < pTT)

\* src/atx.c:171: does an occurrence at signed distance tt replace the
\* running best, whose distance is pTT
Better(tt, pTT) ==
    \/ pTT = 0
    \/ (tt > 0 /\ pTT < 0)
    \/ (tt > 0 /\ pTT > 0 /\ tt < pTT)
    \/ (tt < 0 /\ pTT < 0 /\ tt < pTT)

HasExtendedData(st) == (st \div ExtendedDataFlag) % 2 = 1

\* the locals the scan keeps, as set at src/atx.c:99-107 and 163
NoSelection ==
    [pTT |-> 0, gLastAngle |-> 0, status |-> StatusNotFound, tgtSectorIndex |-> 0,
     tgtSectorOffset |-> 0, maxSectorOffset |-> 0, hasError |-> FALSE,
     extendedDataRecords |-> 0, won |-> -1]

\* src/atx.c:172-185: the occurrence sh, i-th of the list, becomes the best
Chosen(sel, sh, i, tt) ==
    [pTT |-> tt,
     gLastAngle |-> sh.timev,
     status |-> U8(255 - sh.status),
     tgtSectorIndex |-> i,
     tgtSectorOffset |-> sh.data,
     maxSectorOffset |-> IF Gt32(sh.data, sel.maxSectorOffset)
                             THEN sh.data ELSE sel.maxSectorOffset,
     hasError |-> sel.hasError \/ sh.status > 0,
     extendedDataRecords |->
         IF HasExtendedData(sh.status)
             THEN U8(sel.extendedDataRecords + 1)
             ELSE sel.extendedDataRecords,
     won |-> i]
\* (a variant that reports the status byte as stored)
ChosenRawStatus(sel, sh, i, tt) == [Chosen(sel, sh, i, tt) EXCEPT !.status = sh.status]
\* (a variant that never flags an error)
ChosenNoError(sel, sh, i, tt) == [Chosen(sel, sh, i, tt) EXCEPT !.hasError = sel.hasError]
\* src/atx.c:171-186
Replace(sel, sh, i, tt) == Chosen(sel, sh, i, tt)

\* src/atx.c:166-187: the sector header sh, i-th of the list, has been read
Consider(sel, sh, i, headPosition, tgtSectorNumber) ==
    LET tt == S16(sh.timev - headPosition)
    IN  IF sh.number = tgtSectorNumber /\ Better(tt, sel.pTT)
            THEN Replace(sel, sh, i, tt)
        ELSE sel

\* src/atx.c:164-190: the loop over the sector headers, from turn i on; c
\* holds currentFileOffset, the selection, the events so far and the headers
\* read so far
RECURSIVE ScanSectorList(_, _, _, _, _, _)
ScanSectorList(i, sectorCount, c, m, headPosition, tgtSectorNumber) ==
    IF i >= sectorCount THEN c
    ELSE IF ReadOk(m, c.cfo, SizeofSectorHeader)
        THEN LET sh == SectorHeaderAt(m, c.cfo)
             IN  ScanSectorList(i + 1, sectorCount,
                     [cfo |-> Add32(c.cfo, SizeofSectorHeader),
                      sel |-> Consider(c.sel, sh, i, headPosition, tgtSectorNumber),
                      ev |-> Append(c.ev, faccess_offset(m, c.cfo, SizeofSectorHeader)),
                      listed |-> Append(c.listed, [i |-> i, h |-> sh])],
                     m, headPosition, tgtSectorNumber)
        ELSE ScanSectorList(i + 1, sectorCount,
                 [c EXCEPT !.ev = Append(@, faccess_offset(m, c.cfo, SizeofSectorHeader))],
                 m, headPosition, tgtSectorNumber)

\* src/atx.c:196-205: the loop over the extended data records, from turn i on
RECURSIVE ScanExtendedData(_, _, _, _, _)
ScanExtendedData(i, n, c, m, tgtSectorIndex) ==
    IF i >= n THEN c
    ELSE LET ok == ReadOk(m, c.cfo, SizeofExtendedSectorData)
             x == ExtendedSectorDataAt(m, c.cfo)
         IN  ScanExtendedData(i + 1, n,
                 [cfo |-> Add32(c.cfo, SizeofExtendedSectorData),
                  weakOffset |-> IF ok /\ x.sectorIndex = tgtSectorIndex
                                       /\ x.type = WeakDataType
                                     THEN S16(x.data) ELSE c.weakOffset,
                  ev |-> Append(c.ev, faccess_offset(m, c.cfo, SizeofExtendedSectorData))],
                 m, tgtSectorIndex)

\* src/atx.c:216-220: rand() fills the buffer from weakOffset to the sector's end
RandomizeFrom(buf, weakOffset, bytesPerSector) ==
    IF weakOffset > -1 /\ weakOffset < bytesPerSector
        THEN SelectSeq(buf, LAMBDA r : r.upto <= weakOffset)
             \o (IF weakOffset > 0 /\ \A k \in 1..Len(buf) : buf[k].upto # weakOffset
                     THEN <<[buf[CHOOSE k \in 1..Len(buf) :
                                    buf[k].upto > weakOffset
                                    /\ \A j \in 1..(k - 1) : buf[j].upto <= weakOffset]
                             EXCEPT !.upto = weakOffset]>>
                 ELSE <<>>)
             \o <<Run(bytesPerSector, "rand", 0, weakOffset)>>
             \o SelectSeq(buf, LAMBDA r : r.upto > bytesPerSector)
    ELSE buf
\* (a variant that spares the byte at weakOffset)
RandomizeAfter(buf, weakOffset, bytesPerSector) ==
    IF weakOffset > -1 THEN RandomizeFrom(buf, weakOffset + 1, bytesPerSector) ELSE buf
Randomize(buf, weakOffset, bytesPerSector) == RandomizeFrom(buf, weakOffset, bytesPerSector)

\* n * MS_ANGULAR_UNIT_VAL * 10^12 as <<hi, lo>> = hi * 10^6 + lo, for n in 0..65535
AngularUnits(n) ==
    LET c == (n \div 1000) * AuLo
        low == (c % 1000) * 1000 + (n % 1000) * AuLo
    IN  <<n * AuHi + (c \div 1000) + (low \div 1000000), low % 1000000>>
FloorMs(n) == AngularUnits(n)[1] \div 1000000
CeilMs(n) ==
    FloorMs(n) + (IF (AngularUnits(n)[1] % 1000000) # 0 \/ AngularUnits(n)[2] # 0 THEN 1 ELSE 0)

\* src/atx.c:225-231, in angular units
RotationUnits(lastAngle, headPosition) ==
    IF lastAngle > headPosition
        THEN U16(lastAngle - headPosition)
    ELSE U16(AU_FULL_ROTATION - headPosition + lastAngle)
\* src/atx.c:234-237: the number of turns of the loop of 1 ms delays, the
\* products taken exactly
DelayTurns(lastAngle, headPosition, t2) ==
    LET rot == RotationUnits(lastAngle, headPosition)
        elapsed == U16(t2 - headPosition)
    IN  IF rot >= elapsed
            THEN MS_SECTOR_READ_PLUS_CRC + CeilMs(rot - elapsed)
        ELSE Max(0, MS_SECTOR_READ_PLUS_CRC - FloorMs(elapsed - rot))

\* src/atx.c:110-111
TrackOf(num) == U8((U16(num - 1) \div gSectorsPerTrack) + 1)
SectorOf(num) == U8((U16(num - 1) % gSectorsPerTrack) + 1)

\* src/atx.c:117: the bound on the track a request may name
TrackLimit == 40

\* gTrackInfo[drive][track].offset as read at src/atx.c:144; for drive 0
\* and track -1 the word lies before the table and holds whatever is there
TrackInfoOffset(drive, track, before) ==
    IF InTable(WordIndex(drive, track))
        THEN gTrackInfo[WordIndex(drive, track) \div NumTracks][WordIndex(drive, track) % NumTracks]
    ELSE before

\* (a variant that steps only when the head moves outwards)
SeekEventsSigned(headTrack, tgtTrackNumber) ==
    IF headTrack # tgtTrackNumber
        THEN <<Event("step", Max(0, tgtTrackNumber - headTrack), 0), Event("settle", 0, 0)>>
    ELSE <<>>

\* src/atx.c:125-135: the delays of the seek
SeekEvents(headTrack, tgtTrackNumber) ==
    IF headTrack # tgtTrackNumber
        THEN <<Event("step", Abs(tgtTrackNumber - headTrack), 0), Event("settle", 0, 0)>>
    ELSE <<>>

\* loadAtxSector (src/atx.c:93-241) as the values it leaves, one operator
\* per stretch of the code; f holds the arguments and the locals set so far:
\* drive, the image m behind it, tgtTrackNumber, tgtSectorNumber, the two
\* samples headPosition and t2 of getCurrentHeadPosition, trackOffset, and
\* g, the contents of what the code reads without having written it (the
\* word before the table, the buffer after an unchecked read that failed)

\* src/atx.c:114-119, 150-152: the values an early return leaves
EarlyReturn(tgtTrackNumber, tgtSectorNumber) ==
    [gLastAngle |-> gLastAngle, gCurrentHeadTrack |-> gCurrentHeadTrack,
     last_angle_returned |-> last_angle_returned,
     buf |-> Stale, sectorSize |-> sectorSize,
     status |-> StatusNotFound, ret |-> 0,
     t |-> [NoTrace EXCEPT !.tgtTrackNumber = tgtTrackNumber,
                           !.tgtSectorNumber = tgtSectorNumber,
                           !.exit = "range"]]

\* src/atx.c:223-240: the second sample, the delay and the return
Return(f, s, x, payload, ev) ==
    [gLastAngle |-> s.sel.gLastAngle,
     gCurrentHeadTrack |-> f.tgtTrackNumber,
     last_angle_returned |-> s.sel.gLastAngle,
     buf |-> Randomize(BufferAfter(f.m, ev), x.weakOffset, gBytesPerSector),
     sectorSize |-> gBytesPerSector,
     status |-> s.sel.status,
     ret |-> IF s.sel.hasError THEN 0 ELSE payload,
     t |-> [tgtTrackNumber |-> f.tgtTrackNumber,
            tgtSectorNumber |-> f.tgtSectorNumber,
            trackOffset |-> f.trackOffset,
            listed |-> s.listed,
            won |-> s.sel.won,
            hasError |-> s.sel.hasError,
            extendedDataRecords |-> s.sel.extendedDataRecords,
            maxSectorOffset |-> s.sel.maxSectorOffset,
            tgtSectorOffset |-> s.sel.tgtSectorOffset,
            weakOffset |-> x.weakOffset,
            payload |-> payload,
            exit |-> "full",
            ev |-> ev \o (IF x.weakOffset > -1 /\ x.weakOffset < gBytesPerSector
                              THEN <<Event("rand", x.weakOffset, gBytesPerSector)>>
                          ELSE <<>>)
                      \o <<Event("sample", f.t2, 0),
                           Event("ms", DelayTurns(s.sel.gLastAngle, f.headPosition, f.t2), 0)>>]]

\* src/atx.c:209-220: the payload read at dataOffset, if one was resolved
ReadPayload(f, s, x, dataOffset) ==
    IF s.sel.tgtSectorOffset # 0
        THEN Return(f, s, x, Returned(f.m, dataOffset, gBytesPerSector),
                    Append(x.ev, faccess_offset(f.m, dataOffset, gBytesPerSector)))
    ELSE Return(f, s, x, 0, x.ev)

\* src/atx.c:191-206: the extended data records, s being the scan's outcome
ReadExtendedData(f, s) ==
    ReadPayload(f, s,
        IF s.sel.extendedDataRecords > 0
            THEN ScanExtendedData(0, s.sel.extendedDataRecords,
                     [cfo |-> Add32(Add32(f.trackOffset, s.sel.maxSectorOffset),
                                    gBytesPerSector),
                      weakOffset |-> -1, ev |-> s.ev],
                     f.m, s.sel.tgtSectorIndex)
        ELSE [cfo |-> s.cfo, weakOffset |-> -1, ev |-> s.ev],
        Add32(f.trackOffset, s.sel.tgtSectorOffset))

\* src/atx.c:155-190: the sector list header at listOffset, then the scan
ReadSectorList(f, ev, sectorCount, listOffset, slHeader) ==
    ReadExtendedData(f,
        ScanSectorList(0, sectorCount,
            [cfo |-> Add32(listOffset,
                           Sub32(slHeader.next, U16(sectorCount * SizeofSectorHeader))),
             sel |-> [NoSelection EXCEPT !.gLastAngle = gLastAngle],
             ev |-> Append(ev, faccess_offset(f.m, listOffset, SizeofSectorListHeader)),
             listed |-> <<>>],
            f.m, f.headPosition, f.tgtSectorNumber))

\* src/atx.c:146-157: the track header as the buffer shows it after the read
CheckTrackHeader(f, ev, trackHeader, listOffset) ==
    IF trackHeader.sectorCount = 0 \/ trackHeader.trackNumber # f.tgtTrackNumber - 1
        THEN [EarlyReturn(f.tgtTrackNumber, f.tgtSectorNumber) EXCEPT
                 !.gCurrentHeadTrack = f.tgtTrackNumber,
                 !.buf = BufferAfter(f.m, ev),
                 !.t.trackOffset = f.trackOffset, !.t.ev = ev,
                 !.t.exit = "header"]
    ELSE ReadSectorList(f, ev, trackHeader.sectorCount, listOffset,
             IF ReadOk(f.m, listOffset, SizeofSectorListHeader)
                 THEN SectorListHeaderAt(f.m, listOffset) ELSE f.g.sl)

\* src/atx.c:146, 155: the cast of the buffer and the offset of the sector list
LocateSectorList(f, ev, trackHeader) ==
    CheckTrackHeader(f, ev, trackHeader, Add32(f.trackOffset, trackHeader.headerSize))

\* src/atx.c:121-145: the request delay, the seek, the first sample and the
\* read of the track header
ReadTrackHeader(f) ==
    LocateSectorList(f,
        <<Event("request", 0, 0)>> \o SeekEvents(gCurrentHeadTrack, f.tgtTrackNumber)
            \o <<Event("sample", f.headPosition, 0),
                 faccess_offset(f.m, f.trackOffset, SizeofTrackHeader)>>,
        IF ReadOk(f.m, f.trackOffset, SizeofTrackHeader)
            THEN TrackHeaderAt(f.m, f.trackOffset) ELSE f.g.th)

\* src/atx.c:109-119, 144: h1 and h2 are the two samples of
\* getCurrentHeadPosition the call will take
SectorRequest(drive, num, h1, h2, g) ==
    IF TrackOf(num) > TrackLimit THEN EarlyReturn(TrackOf(num), SectorOf(num))
    ELSE ReadTrackHeader(
             [drive |-> drive, m |-> file[drive],
              tgtTrackNumber |-> TrackOf(num), tgtSectorNumber |-> SectorOf(num),
              headPosition |-> h1, t2 |-> h2, g |-> g,
              trackOffset |-> TrackInfoOffset(drive, TrackOf(num) - 1, g.before)])

\* the requests, samples and stray memory contents the model draws from
Nums == {0, 1, 2, 4, 19, 703, 721, 4591, 4609}
HeadSamples == {0, 13000, 21000}
\* the angular units the reads of a request take: few when the drive is
\* sampled at the index mark, many (past the mark for the last sample) otherwise
Elapsed(h1) == IF h1 = 0 THEN {250} ELSE {8000}
StrayWords == {0, SizeofFileHeader}
StaleTrackHeaders ==
    {JunkEmpty.th, [size |-> 0, trackNumber |-> 0, sectorCount |-> 1, headerSize |-> 0]}
StaleSectorListHeaders == {JunkEmpty.sl}
Stray == [before : StrayWords, th : StaleTrackHeaders, sl : StaleSectorListHeaders]
\* ... of which a request reads only some: the others are fixed here, so
\* that one request is one step
StrayRead(drive, num) ==
    {g \in Stray :
        /\ (TrackOf(num) > TrackLimit \/ InTable(WordIndex(drive, TrackOf(num) - 1))
               => g.before = 0)
        /\ (TrackOf(num) > TrackLimit
               \/ ReadOk(file[drive], TrackInfoOffset(drive, TrackOf(num) - 1, g.before),
                         SizeofTrackHeader)
               => g.th = JunkEmpty.th)}

loadAtxSector(drive, num, h1, h2, g) ==
    /\ pc = "idle"
    /\ file[drive] # 0
    /\ calls.loadAtxSector < MaxRequests
    /\ calls' = [calls EXCEPT !.loadAtxSector = @ + 1]
    /\ g \in StrayRead(drive, num)
    /\ \E r \in {SectorRequest(drive, num, h1, h2, g)} :
           /\ gLastAngle' = r.gLastAngle
           /\ gCurrentHeadTrack' = r.gCurrentHeadTrack
           /\ last_angle_returned' = r.last_angle_returned
           /\ atari_sector_buffer' = r.buf
           /\ sectorSize' = r.sectorSize
           /\ status' = r.status
           /\ call' = Call("loadAtxSector", drive, file[drive], num, h1, h2, r.ret, TRUE, r.t)
    /\ UNCHANGED <<gBytesPerSector, gSectorsPerTrack, gTrackInfo, outside, file, pc, ld, scan>>

Next ==
    \/ \E drive \in 0..(NumDrives - 1), m \in ImageIds : loadAtxFile(drive, m)
    \/ loadAtxFileWalk
    \/ \E drive \in 0..(NumDrives - 1), num \in Nums, h1 \in HeadSamples, g \in Stray :
           \E d \in Elapsed(h1) :
               loadAtxSector(drive, num, h1, (h1 + d) % AU_FULL_ROTATION, g)

Spec == Init /\ [][Next]_vars

\* the processor keeps executing the loop of loadAtxFile once it is in it
LiveSpec == Spec /\ WF_vars(loadAtxFileWalk)

-----------------------------------------------------------------------------
(* The occurrence scan taken alone: the selection of src/atx.c:163-190 on  *)
(* a sector list given as such, every header read.                         *)

RECURSIVE ScanList(_, _, _, _, _)
ScanList(list, i, sel, headPosition, tgtSectorNumber) ==
    IF i >= Len(list) THEN sel
    ELSE ScanList(list, i + 1, Consider(sel, list[i + 1], i, headPosition, tgtSectorNumber),
                  headPosition, tgtSectorNumber)

ScanNumbers == {1, 2}
ScanAngles == {0, 100, 13000, 20000, AU_FULL_ROTATION - 1}
ScanHeaders ==
    {[number |-> n, status |-> 0, timev |-> a, data |-> 0] : n \in ScanNumbers, a \in ScanAngles}
RECURSIVE ScanLists(_)
ScanLists(n) ==
    IF n = 0 THEN {<<>>}
    ELSE ScanLists(n - 1) \cup {Append(l, h) : l \in ScanLists(n - 1), h \in ScanHeaders}

InitScan ==
    /\ Start
    /\ scan \in {[list |-> l, head |-> h, target |-> n, done |-> FALSE, won |-> -1] :
                    l \in ScanLists(MaxOcc), h \in ScanAngles, n \in ScanNumbers}

ScanRun ==
    /\ ~scan.done
    /\ scan' = [scan EXCEPT
                   !.done = TRUE,
                   !.won = ScanList(scan.list, 0, NoSelection, scan.head, scan.target).won]
    /\ UNCHANGED <<gBytesPerSector, gSectorsPerTrack, gTrackInfo, outside, gLastAngle,
                   gCurrentHeadTrack, last_angle_returned, atari_sector_buffer, file,
                   sectorSize, status, pc, ld, call, calls>>

ScanSpec == InitScan /\ [][ScanRun]_vars

-----------------------------------------------------------------------------
(* Properties *)

\* the step is a call of loadAtxFile, of loadAtxSector
LoadCalled == calls'.loadAtxFile = calls.loadAtxFile + 1
SectorCalled == calls'.loadAtxSector = calls.loadAtxSector + 1

\* image m carries a wrong magic or an unsupported version
BadHeader(m) ==
    \/ Images[m].fh.signature # Magic
    \/ Images[m].fh.version # ATX_VERSION
    \/ Images[m].fh.minVersion # ATX_VERSION

\* the last call was loadAtxFile, has returned, and returned a geometry
Loaded == call.op = "loadAtxFile" /\ call.done /\ call.ret # 0
\* the last call was loadAtxSector
Requested == call.op = "loadAtxSector"
\* the sector header the scan of the last request ended on (if it chose one)
ChosenHeader ==
    call.t.listed[CHOOSE k \in 1..Len(call.t.listed) : call.t.listed[k].i = call.t.won].h
\* the complement of a byte, bit by bit
Bit(b, k) == (b \div (2 ^ k)) % 2
Not8(b) ==
    (1 - Bit(b, 0)) + 2 * (1 - Bit(b, 1)) + 4 * (1 - Bit(b, 2)) + 8 * (1 - Bit(b, 3))
        + 16 * (1 - Bit(b, 4)) + 32 * (1 - Bit(b, 5)) + 64 * (1 - Bit(b, 6))
        + 128 * (1 - Bit(b, 7))

\* C1: loadAtxFile on an image whose magic is not 'AT8X' or whose version or
\* minVersion is not the supported one returns 0 and leaves the track index
\* of both slots and the two geometry constants as they were before the call.
C1_BadHeaderLeavesAll ==
    [][LoadCalled /\ BadHeader(call'.img)
          => /\ call'.done /\ call'.ret = 0 /\ pc' = "idle"
             /\ gTrackInfo' = gTrackInfo
             /\ outside' = outside
             /\ gSectorsPerTrack' = gSectorsPerTrack
             /\ gBytesPerSector' = gBytesPerSector]_vars
\* an image with an unsupported minVersion was refused in a slot that holds
\* the index and the geometry of an earlier image
C1_Witness ==
    /\ call.op = "loadAtxFile" /\ call.done /\ call.ret = 0
    /\ Images[call.img].fh.signature = Magic
    /\ Images[call.img].fh.minVersion # ATX_VERSION
    /\ gBytesPerSector = 256 /\ gSectorsPerTrack = 26
    /\ gTrackInfo[call.drive][2] # 0

\* the track of a request as the integer (num - 1) div sectorsPerTrack + 1
UntruncatedTrack(num) == ((num - 1) \div gSectorsPerTrack) + 1
\* C2: every request whose track, computed without truncation, is above 40
\* returns 0 bytes with status 0xF7, leaves the caller's sectorSize, the head
\* track and the last angle unchanged, reads nothing and delays nothing.
C2_FarTrackRefused ==
    [][SectorCalled /\ UntruncatedTrack(call'.num) > 40
          => /\ call'.ret = 0
             /\ status' = 247
             /\ sectorSize' = sectorSize
             /\ call'.t.ev = <<>>
             /\ gCurrentHeadTrack' = gCurrentHeadTrack
             /\ gLastAngle' = gLastAngle]_vars

\* the rotational delay of src/atx.c:227-231 for an occurrence at timev
ForwardDistance(timev, head) ==
    IF timev > head THEN timev - head ELSE AU_FULL_ROTATION - head + timev
\* the places of list (1-based) whose sector number is the target
Matching(list, target) == {k \in 1..Len(list) : list[k].number = target}
\* C3: the occurrence the scan ends on is one of the occurrences of the
\* target sector, and none of them has a smaller forward angular distance
\* from the head; the scan chooses nothing only when there is none.
C3_NearestForward ==
    scan.done =>
        IF Matching(scan.list, scan.target) = {} THEN scan.won = -1
        ELSE /\ scan.won + 1 \in Matching(scan.list, scan.target)
             /\ \A k \in Matching(scan.list, scan.target) :
                    ForwardDistance(scan.list[scan.won + 1].timev, scan.head)
                        <= ForwardDistance(scan.list[k].timev, scan.head)
\* several occurrences, none ahead of the head, and the one chosen is not
\* the first of them in file order
C3_Witness ==
    /\ scan.done
    /\ Cardinality(Matching(scan.list, scan.target)) >= 2
    /\ \A k \in Matching(scan.list, scan.target) : scan.list[k].timev <= scan.head
    /\ \E k \in Matching(scan.list, scan.target) : k < scan.won + 1

\* C4: after a sector request the status byte reported is the 8-bit
\* complement of the on-disk status of the occurrence finally chosen, and
\* 0xF7 when none was chosen: track out of range, track header mismatch or
\* empty track, no occurrence with the target number.
C4_StatusIsComplement ==
    Requested =>
        /\ call.t.won >= 0 => status = Not8(ChosenHeader.status)
        /\ call.t.won = -1 => status = 247
        /\ call.t.exit \in {"range", "header"} => call.t.won = -1
        /\ (\A k \in 1..Len(call.t.listed) :
                call.t.listed[k].h.number # call.t.tgtSectorNumber) => call.t.won = -1
\* a chosen occurrence whose status byte is neither 0 nor the one bit of 0xF7
C4_Witness ==
    /\ Requested /\ call.t.won >= 0
    /\ ChosenHeader.status \notin {0, 8}
    /\ status = Not8(ChosenHeader.status)

\* C5: when the occurrence finally chosen has a nonzero on-disk status, the
\* request returns 0 bytes, also when its payload was read successfully.
C5_ErrorStatusReturnsZero ==
    Requested /\ call.t.won >= 0 /\ ChosenHeader.status # 0 => call.ret = 0
\* the payload of such an occurrence was read in full
C5_Witness ==
    /\ Requested /\ call.t.won >= 0 /\ ChosenHeader.status # 0
    /\ ChosenHeader.data # 0
    /\ call.t.payload = sectorSize /\ call.t.payload > 0
    /\ call.ret = 0

\* a weak start offset inside the sector was resolved and the payload read
WeakResolved ==
    /\ Requested /\ call.t.exit = "full"
    /\ call.t.weakOffset >= 0 /\ call.t.weakOffset < sectorSize
    /\ call.t.payload = sectorSize /\ call.t.payload > 0
\* C6: with a weak start offset K resolved and the payload read, the buffer
\* holds the on-disk payload bytes in [0, K) and values drawn after the
\* payload read in [K, bytesPerSector), whatever length is returned.
C6_WeakTailRandomized ==
    WeakResolved =>
        /\ \A i \in 0..(call.t.weakOffset - 1) :
               CellAt(atari_sector_buffer, i)
                   = Cell("file", call.img, call.t.trackOffset + call.t.tgtSectorOffset + i)
        /\ \A i \in call.t.weakOffset..(sectorSize - 1) :
               CellAt(atari_sector_buffer, i) = Cell("rand", 0, i - call.t.weakOffset)
        /\ \E p, q \in 1..Len(call.t.ev) :
               /\ p < q
               /\ call.t.ev[p] = Event("read", call.t.trackOffset + call.t.tgtSectorOffset,
                                       sectorSize)
               /\ call.t.ev[q] = Event("rand", call.t.weakOffset, sectorSize)
               /\ \A j \in (q + 1)..Len(call.t.ev) : call.t.ev[j].e \notin {"read", "miss"}
\* K lies strictly inside the sector and the length returned was forced to 0
C6_Witness ==
    /\ WeakResolved
    /\ call.t.weakOffset > 0
    /\ call.t.hasError /\ call.ret = 0

\* C7: the walk of loadAtxFile writes only to the entries 0..39 of the slot
\* it loads; no track header makes it write outside the table or, inside
\* it, to the other slot.
C7_WalkWritesOwnSlot ==
    [][pc = "walk"
          => /\ outside' = outside
             /\ gTrackInfo'[1 - ld.drive] = gTrackInfo[1 - ld.drive]]_vars

\* the track numbers 0..39 declared by a header the last walk has read
Declared ==
    {n \in 0..(NumTracks - 1) :
        \E o \in ld.visited : TrackHeaderAt(ld.img, o).trackNumber = n}
\* entry n of the slot just loaded is the offset of a track header of the
\* image that declares track n
PointsAtTrack(n) ==
    /\ ReadOk(ld.img, gTrackInfo[ld.drive][n], SizeofTrackHeader)
    /\ gTrackInfo[ld.drive][n] \in DOMAIN Images[ld.img].th
    /\ Images[ld.img].th[gTrackInfo[ld.drive][n]].trackNumber = n
\* C8 (as stated): after a successful load every entry n in 0..39 of the slot
\* is the offset of a track header of the image that declares track n.
C8_EveryEntryPointsAtTrack ==
    Loaded => \A n \in 0..(NumTracks - 1) : PointsAtTrack(n)
\* C8 (amended): after a successful load, every entry n in 0..39 of the slot
\* whose track n the image declares in a header the walk read is the offset
\* of a header the walk read that declares track n.
C8_DeclaredEntryPointsAtTrack ==
    Loaded => \A n \in Declared : PointsAtTrack(n) /\ gTrackInfo[ld.drive][n] \in ld.visited
\* a load of an image without track 1 into a slot whose entry 1 still holds
\* the offset an earlier image left there
C8_Witness ==
    /\ Loaded
    /\ Declared # {} /\ 1 \notin Declared
    /\ gTrackInfo[ld.drive][1] # 0

C10_ErrorFlagOfWinner ==
    Requested /\ call.t.won >= 0 /\ ChosenHeader.status = 0 /\ ChosenHeader.data # 0
        => call.ret = call.t.payload

\* the delays and samples a request ends with: the second sample, then the
\* 1 ms delays for the angle lastAngle seen from the first sample
TimedEnd(ev, lastAngle) ==
    /\ Len(ev) >= 2
    /\ ev[Len(ev) - 1] = Event("sample", call.h2, 0)
    /\ ev[Len(ev)] = Event("ms", DelayTurns(lastAngle, call.h1, call.h2), 0)
\* C11: a request that fails on the track header (sectorCount 0, or a
\* trackNumber that is not the requested track) still takes the second head
\* sample and applies the rotational and read/CRC delay with the last angle
\* it found in place, as a request without a matching occurrence does.
C11_FailedLookupIsTimed ==
    Requested /\ call.t.exit = "header"
        => TimedEnd(call.t.ev, gLastAngle) /\ last_angle_returned = gLastAngle

\* the events a request on track T starts with when the head is on track H
SeekPrefix(H, T, h1) ==
    <<Event("request", 0, 0)>>
        \o (IF T # H THEN <<Event("step", IF T > H THEN T - H ELSE H - T, 0),
                            Event("settle", 0, 0)>>
            ELSE <<>>)
        \o <<Event("sample", h1, 0)>>
\* C12: a request on a track T in 1..40 applies the request delay, then, iff
\* T is not the head track H, |T - H| step delays and one settle delay, sets
\* the head track to T, and only then takes the first head sample and issues
\* the first read; the head track is 0 before the first request.
C12_SeekBeforeSample ==
    /\ gCurrentHeadTrack = 0
    /\ [][SectorCalled /\ call'.t.tgtTrackNumber \in 1..40 /\ call'.t.exit # "range"
             => /\ gCurrentHeadTrack' = call'.t.tgtTrackNumber
                /\ Len(call'.t.ev) > Len(SeekPrefix(gCurrentHeadTrack,
                                                    call'.t.tgtTrackNumber, call'.h1))
                /\ SubSeq(call'.t.ev, 1, Len(SeekPrefix(gCurrentHeadTrack,
                                                        call'.t.tgtTrackNumber, call'.h1)))
                       = SeekPrefix(gCurrentHeadTrack, call'.t.tgtTrackNumber, call'.h1)
                /\ call'.t.ev[Len(SeekPrefix(gCurrentHeadTrack,
                                             call'.t.tgtTrackNumber, call'.h1)) + 1].e
                       \in {"read", "miss"}]_vars
\* the second request of a run moved the head inwards, by more tracks than
\* the number of the track it went to
C12_Witness ==
    /\ Requested /\ calls.loadAtxSector = 2
    /\ call.t.exit # "range"
    /\ call.t.ev[2].e = "step" /\ call.t.ev[2].a > call.t.tgtTrackNumber
    /\ call.t.ev[3].e = "settle"
    /\ call.t.tgtTrackNumber >= 1

\* the number of 1 ms delays that cover D = rotational delay + 11 ms minus
\* the time between the two samples, their difference taken as signed
SignedDelayTurns(lastAngle, first, second) ==
    LET n == ForwardDistance(lastAngle, first) - (second - first)
    IN  IF n >= 0 THEN MS_SECTOR_READ_PLUS_CRC + CeilMs(n)
        ELSE Max(0, MS_SECTOR_READ_PLUS_CRC - FloorMs(0 - n))
\* C13: the number of 1 ms delays a request ends with is the number of whole
\* milliseconds needed to cover D = rotationalDelay + 11 ms - (second -
\* first) x angularUnitMs, with second - first a signed difference, and 0
\* when D is negative.
C13_DelayCoversSignedGap ==
    Requested /\ call.t.exit = "full"
        => call.t.ev[Len(call.t.ev)]
               = Event("ms", SignedDelayTurns(gLastAngle, call.h1, call.h2), 0)

\* the calls of faccess_offset of the last request, in order
FileEvents == SelectSeq(call.t.ev, LAMBDA e : e.e \in {"read", "miss"})
\* the request read its track header from the file and went on to the scan
Scanned ==
    /\ Requested /\ call.t.exit = "full"
    /\ ReadOk(call.img, call.t.trackOffset, SizeofTrackHeader)
\* the sectorCount of that track header
ScannedCount == TrackHeaderAt(call.img, call.t.trackOffset).sectorCount
\* the headers the scan read whose number is the target sector's
MatchingListed ==
    {k \in 1..Len(call.t.listed) : call.t.listed[k].h.number = call.t.tgtSectorNumber}
\* ... and, of these, the ones with the extended data flag
FlaggedListed == {k \in MatchingListed : HasExtendedData(call.t.listed[k].h.status)}
\* the greatest data offset among the matching headers
MaxMatchingData ==
    CHOOSE d \in {call.t.listed[k].h.data : k \in MatchingListed} :
        \A k \in MatchingListed : call.t.listed[k].h.data <= d
\* the calls of faccess_offset that read extended data records: those after
\* the track header, the list header and the sector headers, the payload
\* read excepted
ExtendedReads ==
    SubSeq(FileEvents, 3 + ScannedCount,
           Len(FileEvents) - (IF call.t.tgtSectorOffset # 0 THEN 1 ELSE 0))

\* C14: when the scan met an occurrence of the target sector with the
\* extended data flag, the extended data records are read from (track
\* offset + M + bytesPerSector) on, M being the greatest data offset over
\* all occurrences of the target sector, chosen or not.
C14_ExtendedDataAfterLastPayload ==
    Scanned /\ FlaggedListed # {}
        => /\ Len(ExtendedReads) > 0
           /\ ExtendedReads[1].a = call.t.trackOffset + MaxMatchingData + sectorSize
           /\ ExtendedReads[1].b = SizeofExtendedSectorData

\* C15: the number of extended data records read is the number of
\* occurrences of the target sector with status bit 0x40 set, over all the
\* occurrences scanned and not only the ones that became the running best.
C15_OneRecordPerFlagged ==
    Scanned => Len(ExtendedReads) = Cardinality(FlaggedListed)

\* C16: head track and last angle are kept per drive slot: a request on one
\* slot leaves those of the other slot as they were.  So the first request
\* on a slot, made right after the run's first request went to the other
\* slot, seeks from track 0 and, when it chooses no occurrence, still has
\* last angle 0.
C16_SlotKeepsOwnHead ==
    [][(SectorCalled /\ Requested /\ calls.loadAtxSector = 1
            /\ call'.drive # call.drive /\ call'.t.exit # "range")
          => /\ SubSeq(call'.t.ev, 1, Len(SeekPrefix(0, call'.t.tgtTrackNumber, call'.h1)))
                    = SeekPrefix(0, call'.t.tgtTrackNumber, call'.h1)
             /\ (call'.t.exit = "full" /\ call'.t.won = -1 => gLastAngle' = 0)]_vars

\* slot A holds a loaded image and the last load, into the other slot, was
\* of an image with another density code
LoadedOver(A) ==
    /\ A # ld.drive
    /\ file[A] # 0 /\ file[ld.drive] = ld.img /\ ld.img # 0
    /\ Images[file[A]].fh.density # Images[ld.img].fh.density
\* the geometry of the image loaded last, as its density code gives it
LastSectorsPerTrack == IF Images[ld.img].fh.density = 1 THEN 26 ELSE 18
LastBytesPerSector == IF Images[ld.img].fh.density = 1 THEN 256 ELSE 128
\* C17: the geometry is one pair for both slots.  After a load into slot A
\* and then one into slot B of another density, the walk of the second load
\* leaves slot A's track index entries unchanged, and every later request
\* on slot A derives track and sector, and reads the payload, with the
\* geometry of slot B's image.
C17_OneGeometryOwnIndex ==
    [][/\ (pc = "walk" /\ LoadedOver(1 - ld.drive)
              => gTrackInfo'[1 - ld.drive] = gTrackInfo[1 - ld.drive])
       /\ (SectorCalled /\ pc = "idle" /\ LoadedOver(call'.drive)
              => /\ call'.t.tgtTrackNumber
                        = ((((call'.num - 1) % 65536) \div LastSectorsPerTrack) + 1) % 256
                 /\ call'.t.tgtSectorNumber
                        = (((call'.num - 1) % 65536) % LastSectorsPerTrack) + 1
                 /\ (call'.t.exit = "full" => sectorSize' = LastBytesPerSector)
                 /\ (call'.t.exit = "full" /\ call'.t.tgtSectorOffset # 0
                        => FileEvents'[Len(FileEvents')].b = LastBytesPerSector))]_vars

\* C18: loadAtxFile terminates on every image with a valid header: once in
\* the walk it reaches the read that fails and returns, whatever the size
\* fields of the track headers.
C18_WalkTerminates == (pc = "walk") ~> (pc = "idle")

\* C19: every access loadAtxSector makes to the track index (they all come
\* after the test on the track, src/atx.c:144, 195, 212) uses an index
\* tgtTrackNumber - 1 within 0..39, tgtTrackNumber being the 8-bit value
\* stored at src/atx.c:110, for every num from 0 on.
C19_IndexWithinTable ==
    Requested /\ call.t.exit # "range"
        => call.t.tgtTrackNumber - 1 \in 0..(NumTracks - 1)

====
